---- MODULE Spec2Model ----
(***************************************************************************)
(* A model of the eth2 reward simulation: State / StateTotals              *)
(* (src/src/types/state.rs), Validator (src/src/types/validator.rs),       *)
(* Config (src/src/types/config.rs) and process_epoch with its two helpers *)
(* (src/src/process_epoch/).                                               *)
(*                                                                         *)
(* Balances are u64 amounts of Gwei (32_000_000_000 and up), far beyond    *)
(* the 32-bit integers of the model checker, so a u64 is a sequence of     *)
(* decimal limbs (base 1000, least significant limb first, no leading zero *)
(* limb; zero is the empty sequence) and the arithmetic of the source is   *)
(* carried out limb by limb.  f32 values are pairs mantissa * 2^exponent   *)
(* and every f32 operation of the source rounds to 24 significant bits,    *)
(* ties to even, as the hardware does.                                     *)
(***************************************************************************)
EXTENDS Integers, Sequences, FiniteSets, Bags, TLC

VARIABLES
    state,                  \* the driver's State: [config, validators]
    pc,                     \* where the program is
    epoch_id,               \* the driver's loop counter
    pre_state_totals,       \* process_epoch: StateTotals::new(&pre_state)
    proposer_indices,       \* pick_epoch_proposers: the Vec being filled / returned
    validator_index,        \* process_epoch: position of the validator loop
    post_state_validators,  \* process_epoch: the Vec being filled
    epoch_report_row,       \* process_epoch: the row being aggregated
    output,                 \* the report rows pushed so far
    rng,                    \* thread_rng(): the generator's state
    validator,              \* process_epoch: `validator` of the latest iteration
    base_reward,            \* process_epoch: `base_reward` of the latest iteration
    deltas,                 \* process_epoch: `deltas` of the latest iteration
    unit                    \* a single call of one function on chosen arguments

vars == <<state, pc, epoch_id, pre_state_totals, proposer_indices, validator_index,
          post_state_validators, epoch_report_row, output, rng, validator,
          base_reward, deltas, unit>>

----------------------------------------------------------------------------
(* u64 arithmetic on decimal limbs *)

Base == 10 ^ 3

RECURSIVE Norm(_)
Norm(s) ==
    IF Len(s) = 0 THEN <<>>
    ELSE IF s[Len(s)] = 0 THEN Norm(SubSeq(s, 1, Len(s) - 1))
    ELSE s

\* N(<<32, 0, 0, 0>>) is 32_000_000_000: the groups of three digits as written.
N(groups) == Norm([i \in 1..Len(groups) |-> groups[Len(groups) + 1 - i]])

\* A number below 10^9 as limbs.
FromInt(n) == Norm(<<n % Base, (n \div Base) % Base, n \div (Base * Base)>>)

Zero == <<>>
One == <<1>>

Limb(a, i) == IF i <= Len(a) THEN a[i] ELSE 0

RECURSIVE LtFrom(_, _, _)
LtFrom(a, b, i) ==
    IF i = 0 THEN FALSE
    ELSE IF a[i] # b[i] THEN a[i] < b[i]
    ELSE LtFrom(a, b, i - 1)

Lt(a, b) == IF Len(a) # Len(b) THEN Len(a) < Len(b) ELSE LtFrom(a, b, Len(a))
Le(a, b) == ~Lt(b, a)
Min(a, b) == IF Lt(b, a) THEN b ELSE a
Max(a, b) == IF Lt(a, b) THEN b ELSE a

RECURSIVE AddC(_, _, _, _)
AddC(a, b, i, c) ==
    IF i > Len(a) /\ i > Len(b) THEN (IF c = 0 THEN <<>> ELSE <<c>>)
    ELSE LET s == Limb(a, i) + Limb(b, i) + c
         IN  <<s % Base>> \o AddC(a, b, i + 1, s \div Base)

Add(a, b) == AddC(a, b, 1, 0)

\* a - b for b <= a.
RECURSIVE SubC(_, _, _, _)
SubC(a, b, i, c) ==
    IF i > Len(a) THEN <<>>
    ELSE LET s == Limb(a, i) - Limb(b, i) - c
         IN  <<s % Base>> \o SubC(a, b, i + 1, IF s < 0 THEN 1 ELSE 0)

Sub(a, b) == Norm(SubC(a, b, 1, 0))

\* a * d for a limb-sized d (0 <= d < 2_000_000).
RECURSIVE MulC(_, _, _, _)
MulC(a, d, i, c) ==
    IF i > Len(a) THEN (IF c = 0 THEN <<>> ELSE <<c % Base>> \o MulC(a, d, i, c \div Base))
    ELSE LET s == a[i] * d + c
         IN  <<s % Base>> \o MulC(a, d, i + 1, s \div Base)

MulSmall(a, d) == Norm(MulC(a, d, 1, 0))

ShiftLimb(a) == IF Len(a) = 0 THEN <<>> ELSE <<0>> \o a

RECURSIVE MulFrom(_, _, _)
MulFrom(a, b, i) ==
    IF i > Len(b) THEN <<>>
    ELSE Add(MulSmall(a, b[i]), ShiftLimb(MulFrom(a, b, i + 1)))

Mul(a, b) == MulFrom(a, b, 1)

\* The limbs of a above the k lowest, as a number (at most three limbs).
RECURSIVE TopFrom(_, _)
TopFrom(a, i) == IF i > Len(a) THEN 0 ELSE a[i] + Base * TopFrom(a, i + 1)

RECURSIVE FixDown(_, _, _)
FixDown(r, b, q) == IF Lt(r, MulSmall(b, q)) THEN FixDown(r, b, q - 1) ELSE q

\* One digit of the long division: r div b for r < b * Base, b # 0.  The
\* leading limbs give an estimate that is never too small; FixDown lowers it.
QuotDigit(r, b) ==
    IF Lt(r, b) THEN 0
    ELSE LET k == IF Len(b) > 2 THEN Len(b) - 2 ELSE 0
             est == TopFrom(r, k + 1) \div TopFrom(b, k + 1)
         IN  FixDown(r, b, IF est > Base - 1 THEN Base - 1 ELSE est)

RECURSIVE DivLoop(_, _, _, _, _)
DivLoop(a, b, i, q, r) ==
    IF i = 0 \/ Len(q) + Len(r) < 0 THEN <<Norm(q), r>>
    ELSE LET r1 == Norm(<<a[i]>> \o r)
             d == QuotDigit(r1, b)
         IN  DivLoop(a, b, i - 1, <<d>> \o q, Sub(r1, MulSmall(b, d)))

\* <<a div b, a mod b>> for b # 0 (truncating, as u64 `/` and `%`).
DivMod(a, b) == DivLoop(a, b, Len(a), <<>>, <<>>)
Div(a, b) == DivMod(a, b)[1]
Mod(a, b) == DivMod(a, b)[2]

\* 2^k.
RECURSIVE Pow2(_)
Pow2(k) == IF k <= 20 THEN FromInt(2 ^ k) ELSE Mul(FromInt(2 ^ 20), Pow2(k - 20))

\* 2^64: a u64 holds the numbers below it.
U64Modulus == Pow2(64)
WrapU64(a) == Mod(a, U64Modulus)

\* integer_sqrt(): the largest s with s * s <= n (Newton's iteration from above).
RECURSIVE SqrtLoop(_, _)
SqrtLoop(n, x) ==
    LET y == Div(Add(x, Div(n, x)), <<2>>)
    IN  IF Lt(y, x) THEN SqrtLoop(n, y) ELSE x

\* The same iteration on integers below Base * Base.
RECURSIVE SmallSqrtLoop(_, _)
SmallSqrtLoop(t, x) ==
    LET y == (x + t \div x) \div 2
    IN  IF y < x THEN SmallSqrtLoop(t, y) ELSE x

\* A number that is not below the square root of n # 0: the root of the leading
\* one or two limbs, plus one, followed by half of the limbs below them.
SqrtStart(n) ==
    LET k == (Len(n) - 1) \div 2
    IN  [i \in 1..k |-> 0] \o FromInt(SmallSqrtLoop(TopFrom(n, 2 * k + 1), Base) + 1)

integer_sqrt(n) ==
    IF Len(n) = 0 THEN Zero ELSE SqrtLoop(n, SqrtStart(n))

----------------------------------------------------------------------------
(* f32: m * 2^e with m a u64-style number of at most 24 significant bits *)

F32(m, e) == [m |-> m, e |-> e]

\* The number of low bits a mantissa must lose to fit 24 bits.
ExcessBits(m) ==
    CHOOSE k \in 0..64 : Lt(m, Pow2(24 + k)) /\ (k = 0 \/ ~Lt(m, Pow2(23 + k)))

\* m * 2^e rounded to the nearest f32, ties to even.
RoundF32(m, e) ==
    LET k == ExcessBits(m)
        dm == DivMod(m, Pow2(k))
        up == \/ Lt(Pow2(k - 1), dm[2])
              \/ dm[2] = Pow2(k - 1) /\ Limb(dm[1], 1) % 2 = 1
    IN  IF k = 0 THEN F32(m, e)
        ELSE F32(IF up THEN Add(dm[1], One) ELSE dm[1], e + k)

\* `x as f32` for a u64 x.
AsF32(x) == RoundF32(x, 0)

\* f32 `*`.
F32Mul(x, y) == RoundF32(Mul(x.m, y.m), x.e + y.e)

\* `.floor() as u64` of a non-negative f32.
FloorAsU64(x) == IF x.e >= 0 THEN Mul(x.m, Pow2(x.e)) ELSE Div(x.m, Pow2(0 - x.e))

\* f32 `>`.
F32Gt(x, y) ==
    LET lo == IF x.e < y.e THEN x.e ELSE y.e
    IN  Lt(Mul(y.m, Pow2(y.e - lo)), Mul(x.m, Pow2(x.e - lo)))

----------------------------------------------------------------------------
(* config.rs *)

MAX_EFFECTIVE_BALANCE == N(<<32, 0, 0, 0>>)
BASE_REWARD_FACTOR == 64
BASE_REWARDS_PER_EPOCH == 4
PROPOSER_REWARD_QUOTIENT == 8
EFFECTIVE_BALANCE_INCREMENT == N(<<1, 0, 0, 0>>)

\* The f32 literals of the source and of its tests.
F32_0_0 == F32(Zero, 0)
F32_0_5 == F32(One, 0 - 1)
F32_1_0 == F32(One, 0)
\* 0.99 as f32 is 4152361 * 2^-22.
F32_0_99 == F32(N(<<4, 152, 361>>), 0 - 22)

\* get_exp_value_inclusion_prob(0.99): p * p.ln() / (p - 1.00) in f32 is
\* 8346525 * 2^-23 (0.99498331...).
get_exp_value_inclusion_prob_default == F32(N(<<8, 346, 525>>), 0 - 23)

\* Config::new(): the defaults.  epochs, total_at_stake_initial and the two
\* probabilities are the values "we want to get from the command line".
Config_new ==
    [epochs |-> 10,
     total_at_stake_initial |-> N(<<500, 0, 0, 0, 0>>),
     probability_online |-> F32_0_99,
     probability_honest |-> F32_1_0,
     exp_value_inclusion_prob |-> get_exp_value_inclusion_prob_default]

----------------------------------------------------------------------------
(* validator.rs *)

\* get_base_reward dividing before it multiplies.
get_base_reward_DivideFirst(self, sqrt_total_active_balance) ==
    Div(MulSmall(Div(self.effective_balance, sqrt_total_active_balance),
                 BASE_REWARD_FACTOR),
        FromInt(BASE_REWARDS_PER_EPOCH))

get_base_reward(self, sqrt_total_active_balance) ==
    Div(Div(MulSmall(self.effective_balance, BASE_REWARD_FACTOR),
            sqrt_total_active_balance),
        FromInt(BASE_REWARDS_PER_EPOCH))

Contains(seq, x) == \E i \in 1..Len(seq) : seq[i] = x

\* update_previous_epoch_activity with the honesty comparison turned around.
update_previous_epoch_activity_InvertsHonest(self, st, indices, index, draw1, draw2) ==
    LET has_been_online == F32Gt(st.config.probability_online, draw1)
        has_been_honest == F32Gt(draw2, st.config.probability_honest)
        has_matched_source == ~self.is_slashed /\ has_been_online /\ has_been_honest
    IN  [balance |-> self.balance,
         effective_balance |-> self.effective_balance,
         is_active |-> self.is_active,
         is_slashed |-> self.is_slashed,
         has_matched_source |-> has_matched_source,
         has_matched_target |-> has_matched_source,
         has_matched_head |-> has_matched_source,
         is_proposer |-> Contains(indices, index)]

\* update_previous_epoch_activity leaving has_matched_target as it was.
update_previous_epoch_activity_KeepsTarget(self, st, indices, index, draw1, draw2) ==
    LET has_been_online == F32Gt(st.config.probability_online, draw1)
        has_been_honest == F32Gt(st.config.probability_honest, draw2)
        has_matched_source == ~self.is_slashed /\ has_been_online /\ has_been_honest
    IN  [balance |-> self.balance,
         effective_balance |-> self.effective_balance,
         is_active |-> self.is_active,
         is_slashed |-> self.is_slashed,
         has_matched_source |-> has_matched_source,
         has_matched_target |-> self.has_matched_target,
         has_matched_head |-> has_matched_source,
         is_proposer |-> Contains(indices, index)]

\* draw1, draw2: the two values of rng.gen(), f32 in [0, 1).
update_previous_epoch_activity(self, st, indices, index, draw1, draw2) ==
    LET has_been_online == F32Gt(st.config.probability_online, draw1)
        has_been_honest == F32Gt(st.config.probability_honest, draw2)
        has_matched_source == ~self.is_slashed /\ has_been_online /\ has_been_honest
    IN  [balance |-> self.balance,
         effective_balance |-> self.effective_balance,
         is_active |-> self.is_active,
         is_slashed |-> self.is_slashed,
         has_matched_source |-> has_matched_source,
         has_matched_target |-> has_matched_source,
         has_matched_head |-> has_matched_source,
         is_proposer |-> Contains(indices, index)]

\* update_effective_balance with a dead-band of two half increments.
update_effective_balance_TwoHalves(self) ==
    LET half_increment == Div(EFFECTIVE_BALANCE_INCREMENT, <<2>>)
    IN  IF \/ Lt(self.balance, self.effective_balance)
           \/ Lt(Add(self.effective_balance, MulSmall(half_increment, 2)), self.balance)
        THEN [self EXCEPT !.effective_balance =
                 Min(Sub(self.balance, Mod(self.balance, EFFECTIVE_BALANCE_INCREMENT)),
                     MAX_EFFECTIVE_BALANCE)]
        ELSE self

\* update_effective_balance without the rounding down to the increment.
update_effective_balance_NoSnap(self) ==
    LET half_increment == Div(EFFECTIVE_BALANCE_INCREMENT, <<2>>)
    IN  IF \/ Lt(self.balance, self.effective_balance)
           \/ Lt(Add(self.effective_balance, MulSmall(half_increment, 3)), self.balance)
        THEN [self EXCEPT !.effective_balance = Min(self.balance, MAX_EFFECTIVE_BALANCE)]
        ELSE self

update_effective_balance(self) ==
    LET half_increment == Div(EFFECTIVE_BALANCE_INCREMENT, <<2>>)
    IN  IF \/ Lt(self.balance, self.effective_balance)
           \/ Lt(Add(self.effective_balance, MulSmall(half_increment, 3)), self.balance)
        THEN [self EXCEPT !.effective_balance =
                 Min(Sub(self.balance, Mod(self.balance, EFFECTIVE_BALANCE_INCREMENT)),
                     MAX_EFFECTIVE_BALANCE)]
        ELSE self

----------------------------------------------------------------------------
(* state.rs *)

\* The validator State::new() pushes.
NewValidator ==
    [balance |-> MAX_EFFECTIVE_BALANCE,
     effective_balance |-> MAX_EFFECTIVE_BALANCE,
     is_active |-> TRUE,
     is_slashed |-> FALSE,
     has_matched_source |-> FALSE,
     has_matched_target |-> FALSE,
     has_matched_head |-> FALSE,
     is_proposer |-> FALSE]

\* A number of at most three limbs as an integer.
ToInt(a) == TopFrom(a, 1)

State_new(config) ==
    LET number_of_validators == ToInt(Div(config.total_at_stake_initial, MAX_EFFECTIVE_BALANCE))
    IN  [config |-> config,
         validators |-> [i \in 1..number_of_validators |-> NewValidator]]

\* The limbs of a u64.
U64Limbs == 7

\* The limbs of the number whose k-th limbs add up to columns[k], c carried in.
RECURSIVE Carry(_, _, _)
Carry(columns, k, c) ==
    IF k > Len(columns) THEN FromInt(c)
    ELSE <<(columns[k] + c) % Base>> \o Carry(columns, k + 1, (columns[k] + c) \div Base)

\* iter().sum() of u64 numbers: limb by limb, the carries taken at the end.
\* BagCardinality adds the entries of a function of positive numbers.
Sum(nums) ==
    Norm(Carry([k \in 1..U64Limbs |->
                   BagCardinality([i \in 1..Len(nums) |-> Limb(nums[i], k) + 1]) - Len(nums)],
               1, 0))

RECURSIVE Fold(_, _, _, _)
Fold(nums, i, acc, takeMax) ==
    IF i > Len(nums) \/ Len(acc) < 0 THEN acc
    ELSE Fold(nums, i + 1,
              IF takeMax THEN Max(acc, nums[i]) ELSE Min(acc, nums[i]), takeMax)

get_total_staked_balance(st) ==
    Sum([i \in 1..Len(st.validators) |-> st.validators[i].balance])

get_total_active_balance(st) ==
    Sum([i \in 1..Len(st.validators) |->
            IF st.validators[i].is_active THEN st.validators[i].effective_balance ELSE Zero])

get_total_active_validators(st) ==
    Cardinality({i \in 1..Len(st.validators) : st.validators[i].is_active})

\* get_matching_balance without its look at is_slashed.
get_matching_balance_IgnoresSlashed(st) ==
    Sum([i \in 1..Len(st.validators) |->
            IF st.validators[i].is_active
            THEN st.validators[i].effective_balance ELSE Zero])

get_matching_balance(st) ==
    Sum([i \in 1..Len(st.validators) |->
            IF st.validators[i].is_active /\ ~st.validators[i].is_slashed
            THEN st.validators[i].effective_balance ELSE Zero])

get_max_balance(st) ==
    Fold([i \in 1..Len(st.validators) |-> st.validators[i].balance], 1, Zero, TRUE)

get_min_balance(st) ==
    Fold([i \in 1..Len(st.validators) |-> st.validators[i].balance], 1,
         Sub(U64Modulus, One), FALSE)

StateTotals_new(st) ==
    [staked_balance |-> get_total_staked_balance(st),
     active_balance |-> get_total_active_balance(st),
     sqrt_active_balance |-> integer_sqrt(get_total_active_balance(st)),
     active_validators |-> get_total_active_validators(st),
     matching_balance |-> get_matching_balance(st),
     max_balance |-> get_max_balance(st),
     min_balance |-> get_min_balance(st)]

\* pick_epoch_proposers: its constants.
proposers_per_epoch == 32
max_random_byte == 255

\* The skip test without its look at is_slashed.
CandidateSkipped_IgnoresSlashed(st, indices, candidate_index) ==
    \/ ~st.validators[candidate_index + 1].is_active
    \/ Contains(indices, candidate_index)

\* The candidates the loop skips without drawing a byte (state.rs 118-123).
CandidateSkipped(st, indices, candidate_index) ==
    \/ st.validators[candidate_index + 1].is_slashed
    \/ ~st.validators[candidate_index + 1].is_active
    \/ Contains(indices, candidate_index)

\* The acceptance test of a candidate that is neither slashed, inactive nor chosen.
BalanceBiasAccepts(candidate, random_byte) ==
    Le(MulSmall(MAX_EFFECTIVE_BALANCE, random_byte),
       MulSmall(candidate.effective_balance, max_random_byte))

----------------------------------------------------------------------------
(* Deltas and EpochReportRow: src/types/deltas.rs and src/types/output.rs *)

Deltas_new ==
    [head_ffg_reward |-> Zero,
     head_ffg_penalty |-> Zero,
     proposer_reward |-> Zero,
     attester_reward |-> Zero]

EpochReportRow_new ==
    [epoch_id |-> 0,
     deltas_head_ffg_reward |-> Zero,
     deltas_head_ffg_penalty |-> Zero,
     deltas_proposer_reward |-> Zero,
     deltas_attester_reward |-> Zero,
     total_staked_balance |-> Zero,
     total_effective_balance |-> Zero,
     max_balance |-> Zero,
     min_balance |-> Zero,
     total_validators |-> 0,
     total_active_validators |-> 0]

aggregate(row, d) ==
    [row EXCEPT
        !.deltas_head_ffg_reward = Add(@, d.head_ffg_reward),
        !.deltas_head_ffg_penalty = Add(@, d.head_ffg_penalty),
        !.deltas_proposer_reward = Add(@, d.proposer_reward),
        !.deltas_attester_reward = Add(@, d.attester_reward)]

----------------------------------------------------------------------------
(* process_epoch/get_attestation_deltas.rs *)

\* The "shaving" factor of assign_ffg_reward.
Shave == FromInt(10 ^ 3)

\* assign_ffg_reward shaving the matching balance before it becomes an f32.
assign_ffg_reward_ShavesFirst(d, matching_balance, active_balance, probability_online, probability_honest, reward) ==
    LET mb == FloorAsU64(F32Mul(F32Mul(AsF32(Div(matching_balance, Shave)),
                                       probability_online),
                                probability_honest))
        tab == Div(active_balance, Shave)
    IN  [d EXCEPT !.head_ffg_reward = Div(Mul(MulSmall(reward, 3), mb), tab)]

assign_ffg_reward(d, matching_balance, active_balance, probability_online, probability_honest, reward) ==
    LET mb == Div(FloorAsU64(F32Mul(F32Mul(AsF32(matching_balance), probability_online),
                                    probability_honest)),
                  Shave)
        tab == Div(active_balance, Shave)
    IN  [d EXCEPT !.head_ffg_reward = Div(Mul(MulSmall(reward, 3), mb), tab)]

\* assign_ffg_penalty without the factor 3.
assign_ffg_penalty_Single(d, reward) ==
    [d EXCEPT !.head_ffg_penalty = reward]

assign_ffg_penalty(d, reward) ==
    [d EXCEPT !.head_ffg_penalty = MulSmall(reward, 3)]

\* assign_proposer_incentive taking every active validator for an attester.
assign_proposer_incentive_CountsValidators(d, active_validators, probability_online, probability_honest, reward) ==
    LET proposer_reward_amount == Div(reward, FromInt(PROPOSER_REWARD_QUOTIENT))
        number_of_attestations ==
            FloorAsU64(F32Mul(F32Mul(AsF32(FromInt(active_validators)),
                                     probability_online),
                              probability_honest))
    IN  [d EXCEPT !.proposer_reward = Mul(proposer_reward_amount, number_of_attestations)]

assign_proposer_incentive(d, active_validators, probability_online, probability_honest, reward) ==
    LET proposer_reward_amount == Div(reward, FromInt(PROPOSER_REWARD_QUOTIENT))
        number_of_attesters == active_validators \div 32
        number_of_attestations ==
            FloorAsU64(F32Mul(F32Mul(AsF32(FromInt(number_of_attesters)),
                                     probability_online),
                              probability_honest))
    IN  [d EXCEPT !.proposer_reward = Mul(proposer_reward_amount, number_of_attestations)]

assign_attester_incentive(d, magic_number, reward) ==
    LET proposer_reward_amount == Div(reward, FromInt(PROPOSER_REWARD_QUOTIENT))
        maximum_attester_reward == Sub(reward, proposer_reward_amount)
    IN  [d EXCEPT !.attester_reward =
            FloorAsU64(F32Mul(AsF32(maximum_attester_reward), magic_number))]

\* get_attestation_deltas without the early return for an inactive validator.
get_attestation_deltas_IgnoresActive(v, reward, st, state_totals, d) ==
    IF ~v.has_matched_source THEN assign_ffg_penalty(d, reward)
    ELSE LET d1 == assign_ffg_reward(d, state_totals.matching_balance,
                                     state_totals.active_balance,
                                     st.config.probability_online,
                                     st.config.probability_honest, reward)
             d2 == IF v.is_proposer
                   THEN assign_proposer_incentive(d1, state_totals.active_validators,
                                                  st.config.probability_online,
                                                  st.config.probability_honest, reward)
                   ELSE d1
         IN  assign_attester_incentive(d2, st.config.exp_value_inclusion_prob, reward)

get_attestation_deltas(v, reward, st, state_totals, d) ==
    IF ~v.is_active THEN d
    ELSE IF ~v.has_matched_source THEN assign_ffg_penalty(d, reward)
    ELSE LET d1 == assign_ffg_reward(d, state_totals.matching_balance,
                                     state_totals.active_balance,
                                     st.config.probability_online,
                                     st.config.probability_honest, reward)
             d2 == IF v.is_proposer
                   THEN assign_proposer_incentive(d1, state_totals.active_validators,
                                                  st.config.probability_online,
                                                  st.config.probability_honest, reward)
                   ELSE d1
         IN  assign_attester_incentive(d2, st.config.exp_value_inclusion_prob, reward)

\* assign_ffg_reward divides by active_balance / 1000: a panic when that is 0.
get_attestation_deltas_panics(v, state_totals) ==
    /\ v.is_active
    /\ v.has_matched_source
    /\ Div(state_totals.active_balance, Shave) = Zero

----------------------------------------------------------------------------
(* process_epoch/apply_deltas.rs *)

\* Whether a u64 operation of the sum leaves the u64 range, taking them in the
\* order of the source: ((balance + reward) - penalty) + proposer + attester.
\* A build with overflow checks panics there; one without wraps.
apply_deltas_overflows(old_validator, d) ==
    LET s1 == Add(old_validator.balance, d.head_ffg_reward)
        w1 == WrapU64(s1)
        s2 == IF Lt(w1, d.head_ffg_penalty)
              THEN Sub(Add(w1, U64Modulus), d.head_ffg_penalty)
              ELSE Sub(w1, d.head_ffg_penalty)
        s3 == Add(s2, d.proposer_reward)
        s4 == Add(WrapU64(s3), d.attester_reward)
    IN  \/ ~Lt(s1, U64Modulus)
        \/ Lt(w1, d.head_ffg_penalty)
        \/ ~Lt(s3, U64Modulus)
        \/ ~Lt(s4, U64Modulus)

\* apply_deltas copying has_matched_target into has_matched_head.
apply_deltas_SwapsFlags(old_validator, d) ==
    LET s1 == WrapU64(Add(old_validator.balance, d.head_ffg_reward))
        s2 == IF Lt(s1, d.head_ffg_penalty)
              THEN Sub(Add(s1, U64Modulus), d.head_ffg_penalty)
              ELSE Sub(s1, d.head_ffg_penalty)
        s3 == WrapU64(Add(s2, d.proposer_reward))
        s4 == WrapU64(Add(s3, d.attester_reward))
    IN  [balance |-> s4,
         effective_balance |-> old_validator.effective_balance,
         is_active |-> old_validator.is_active,
         is_slashed |-> old_validator.is_slashed,
         has_matched_source |-> old_validator.has_matched_source,
         has_matched_head |-> old_validator.has_matched_target,
         has_matched_target |-> old_validator.has_matched_target,
         is_proposer |-> old_validator.is_proposer]

\* The validator apply_deltas returns, in wrapping u64 arithmetic.
apply_deltas(old_validator, d) ==
    LET s1 == WrapU64(Add(old_validator.balance, d.head_ffg_reward))
        s2 == IF Lt(s1, d.head_ffg_penalty)
              THEN Sub(Add(s1, U64Modulus), d.head_ffg_penalty)
              ELSE Sub(s1, d.head_ffg_penalty)
        s3 == WrapU64(Add(s2, d.proposer_reward))
        s4 == WrapU64(Add(s3, d.attester_reward))
    IN  [balance |-> s4,
         effective_balance |-> old_validator.effective_balance,
         is_active |-> old_validator.is_active,
         is_slashed |-> old_validator.is_slashed,
         has_matched_source |-> old_validator.has_matched_source,
         has_matched_head |-> old_validator.has_matched_head,
         has_matched_target |-> old_validator.has_matched_target,
         is_proposer |-> old_validator.is_proposer]

----------------------------------------------------------------------------
(* Bounds of the model *)

\* Config.epochs is 0 or MaxEpochs.
MaxEpochs == 2
\* State::new() makes proposers_per_epoch .. MaxValidators validators.
MaxValidators == 33
\* The generator starts in one of the states 1 .. MaxSeed.
MaxSeed == 2
\* rng.gen::<f32>() yields the multiples of 2^-DrawBits in [0, 1) (the source: 2^-24).
DrawBits == 2

----------------------------------------------------------------------------
(* thread_rng(): one stream of draws per run, a Lehmer generator x -> 3x mod 257 *)

RngModulus == 2 ^ 8 + 1
NextRng(x) == (x * 3) % RngModulus

\* rng.gen_range(low, high): uniform in low .. high - 1.
gen_range(x, low, high) == low + (x % (high - low))

\* rng.gen(): an f32 in [0, 1).
gen_f32(x) == F32(FromInt(x % (2 ^ DrawBits)), 0 - DrawBits)

Draws == {F32(FromInt(k), 0 - DrawBits) : k \in 0..(2 ^ DrawBits - 1)}

----------------------------------------------------------------------------
(* The program: the driver loop around process_epoch *)

NoUnit == [fn |-> "none"]

StateTotals_none ==
    [staked_balance |-> Zero, active_balance |-> Zero, sqrt_active_balance |-> Zero,
     active_validators |-> 0, matching_balance |-> Zero, max_balance |-> Zero,
     min_balance |-> Zero]

\* What the tests do to a fresh State: set is_slashed / is_active of its first validators.
FlagPatterns ==
    {[slashed |-> {}, inactive |-> {}],
     [slashed |-> {1}, inactive |-> {}],
     [slashed |-> {}, inactive |-> {1}],
     [slashed |-> {1}, inactive |-> {1}],
     [slashed |-> {1}, inactive |-> {2}]}

WithFlags(st, pattern) ==
    [st EXCEPT !.validators =
        [i \in 1..Len(st.validators) |->
            [st.validators[i] EXCEPT !.is_slashed = i \in pattern.slashed,
                                     !.is_active = i \notin pattern.inactive]]]

Locals ==
    /\ pre_state_totals = StateTotals_none
    /\ proposer_indices = <<>>
    /\ validator_index = 0
    /\ post_state_validators = <<>>
    /\ epoch_report_row = EpochReportRow_new
    /\ validator = NewValidator
    /\ base_reward = Zero
    /\ deltas = Deltas_new

Init ==
    /\ \E epochs \in {0, MaxEpochs},
          n \in proposers_per_epoch..MaxValidators,
          probability \in {<<F32_0_99, F32_1_0>>, <<F32_1_0, F32_1_0>>, <<F32_0_5, F32_0_5>>},
          pattern \in FlagPatterns :
            state = WithFlags(
                        State_new([Config_new EXCEPT
                            !.epochs = epochs,
                            !.total_at_stake_initial = MulSmall(MAX_EFFECTIVE_BALANCE, n),
                            !.probability_online = probability[1],
                            !.probability_honest = probability[2]]),
                        pattern)
    /\ rng \in 1..MaxSeed
    /\ pc = "main"
    /\ epoch_id = 0
    /\ output = <<>>
    /\ unit = NoUnit
    /\ Locals

\* StartEpoch without epoch_report_row.epoch_id = epoch_id (mod.rs 18).
StartEpoch_ForgetsEpochId ==
    /\ pc = "main"
    /\ epoch_id < state.config.epochs
    /\ epoch_report_row' = EpochReportRow_new
    /\ post_state_validators' = <<>>
    /\ pre_state_totals' = StateTotals_new(state)
    /\ proposer_indices' = <<>>
    /\ validator_index' = 0
    /\ pc' = IF get_total_active_validators(state) < 32 THEN "panicked" ELSE "pick"
    /\ UNCHANGED <<state, epoch_id, output, rng, validator, base_reward, deltas, unit>>

\* process_epoch up to the loop of pick_epoch_proposers (mod.rs 17-23, state.rs 98-109).
StartEpoch ==
    /\ pc = "main"
    /\ epoch_id < state.config.epochs
    /\ epoch_report_row' = [EpochReportRow_new EXCEPT !.epoch_id = epoch_id]
    /\ post_state_validators' = <<>>
    /\ pre_state_totals' = StateTotals_new(state)
    /\ proposer_indices' = <<>>
    /\ validator_index' = 0
    /\ pc' = IF get_total_active_validators(state) < 32 THEN "panicked" ELSE "pick"
    /\ UNCHANGED <<state, epoch_id, output, rng, validator, base_reward, deltas, unit>>

\* One iteration of the loop of pick_epoch_proposers (state.rs 111-134).
PickStep ==
    /\ pc = "pick"
    /\ Len(proposer_indices) # proposers_per_epoch
    /\ LET n == Len(state.validators)
           candidate_index == gen_range(rng, 0, n)
           candidate == state.validators[candidate_index + 1]
           random_byte == gen_range(NextRng(rng), 0, 255)
       IN  IF CandidateSkipped(state, proposer_indices, candidate_index)
           THEN /\ rng' = NextRng(rng)
                /\ UNCHANGED proposer_indices
           ELSE /\ rng' = NextRng(NextRng(rng))
                /\ proposer_indices' =
                       IF BalanceBiasAccepts(candidate, random_byte)
                       THEN Append(proposer_indices, candidate_index)
                       ELSE proposer_indices
    /\ UNCHANGED <<state, pc, epoch_id, pre_state_totals, validator_index,
                   post_state_validators, epoch_report_row, output, validator,
                   base_reward, deltas, unit>>

\* The loop's break and the return (state.rs 112-114, 136).
PickReturn ==
    /\ pc = "pick"
    /\ Len(proposer_indices) = proposers_per_epoch
    /\ pc' = "validators"
    /\ UNCHANGED <<state, epoch_id, pre_state_totals, proposer_indices, validator_index,
                   post_state_validators, epoch_report_row, output, rng, validator,
                   base_reward, deltas, unit>>

\* One iteration of the validator loop (mod.rs 25-49).  The helpers are called as
\* validator.rs and get_attestation_deltas.rs declare them.
ProcessValidator ==
    /\ pc = "validators"
    /\ validator_index < Len(state.validators)
    /\ \E v \in {update_previous_epoch_activity(state.validators[validator_index + 1],
                       state, proposer_indices, validator_index,
                       gen_f32(rng), gen_f32(NextRng(rng)))} :
         IF \/ pre_state_totals.sqrt_active_balance = Zero
            \/ get_attestation_deltas_panics(v, pre_state_totals)
         THEN \* a division by zero
              /\ pc' = "panicked"
              /\ UNCHANGED <<validator, base_reward, deltas, post_state_validators,
                             epoch_report_row, validator_index, rng>>
         ELSE \E reward \in {get_base_reward(v, pre_state_totals.sqrt_active_balance)} :
              \E d \in {get_attestation_deltas(v, reward, state, pre_state_totals,
                                                Deltas_new)} :
              \E panics \in (IF apply_deltas_overflows(v, d) THEN BOOLEAN ELSE {FALSE}) :
                /\ validator' = v
                /\ base_reward' = reward
                /\ deltas' = d
                /\ rng' = NextRng(NextRng(rng))
                /\ IF panics
                   THEN /\ pc' = "panicked"
                        /\ UNCHANGED <<post_state_validators, epoch_report_row,
                                       validator_index>>
                   ELSE /\ post_state_validators' =
                               Append(post_state_validators,
                                      update_effective_balance(apply_deltas(v, d)))
                        /\ epoch_report_row' = aggregate(epoch_report_row, d)
                        /\ validator_index' = validator_index + 1
                        /\ pc' = pc
    /\ UNCHANGED <<state, epoch_id, pre_state_totals, proposer_indices, output, unit>>

\* The end of process_epoch (mod.rs 51-65) and of the driver's iteration.
FinishEpoch ==
    /\ pc = "validators"
    /\ validator_index = Len(state.validators)
    /\ LET post_state == [config |-> state.config, validators |-> post_state_validators]
           row == [epoch_report_row EXCEPT
                      !.total_staked_balance = get_total_staked_balance(post_state),
                      !.total_effective_balance = get_total_active_balance(post_state),
                      !.max_balance = get_max_balance(post_state),
                      !.min_balance = get_min_balance(post_state),
                      !.total_validators = Len(post_state.validators),
                      !.total_active_validators = get_total_active_validators(post_state)]
       IN  /\ epoch_report_row' = row
           /\ output' = Append(output, row)
           /\ state' = post_state
    /\ epoch_id' = epoch_id + 1
    /\ pc' = "main"
    /\ UNCHANGED <<pre_state_totals, proposer_indices, validator_index,
                   post_state_validators, rng, validator, base_reward, deltas, unit>>

\* The driver's loop ends after Config.epochs epochs.
Finish ==
    /\ pc = "main"
    /\ epoch_id >= state.config.epochs
    /\ pc' = "done"
    /\ UNCHANGED <<state, epoch_id, pre_state_totals, proposer_indices, validator_index,
                   post_state_validators, epoch_report_row, output, rng, validator,
                   base_reward, deltas, unit>>

Next ==
    \/ StartEpoch
    \/ PickStep
    \/ PickReturn
    \/ ProcessValidator
    \/ FinishEpoch
    \/ Finish

Spec == Init /\ [][Next]_vars

----------------------------------------------------------------------------
(* Single calls: one function of the source applied to chosen arguments *)

\* The balances tried: the multiples of half an increment up to MaxHalfSteps
\* halves, and their neighbours.
MaxHalfSteps == 70

HalfSteps ==
    {Add(MulSmall(N(<<500, 0, 0>>), h), FromInt(d)) : h \in 0..MaxHalfSteps, d \in {0, 1, 1000}}
        \cup {Sub(MulSmall(N(<<500, 0, 0>>), h), One) : h \in 1..MaxHalfSteps}

\* The largest f32 below 1.
MaxDraw == F32(FromInt(2 ^ 24 - 1), 0 - 24)

\* The proposer indices of tests::update_previous_epoch_activity_proposer.
TestProposerIndices == <<4, 8, 15, 16, 23, 42>>

ValidatorOf(balance, effective_balance, active, slashed, source, target, head, proposer) ==
    [balance |-> balance,
     effective_balance |-> effective_balance,
     is_active |-> active,
     is_slashed |-> slashed,
     has_matched_source |-> source,
     has_matched_target |-> target,
     has_matched_head |-> head,
     is_proposer |-> proposer]

\* StateTotals::new of a State::new() of n validators, the first k of them slashed.
TotalsOf(n, k) ==
    [staked_balance |-> MulSmall(MAX_EFFECTIVE_BALANCE, n),
     active_balance |-> MulSmall(MAX_EFFECTIVE_BALANCE, n),
     sqrt_active_balance |-> integer_sqrt(MulSmall(MAX_EFFECTIVE_BALANCE, n)),
     active_validators |-> n,
     matching_balance |-> MulSmall(MAX_EFFECTIVE_BALANCE, n - k),
     max_balance |-> MAX_EFFECTIVE_BALANCE,
     min_balance |-> MAX_EFFECTIVE_BALANCE]

\* 15625 validators are the 500,000 ETH of Config::new().
UnitTotals == {TotalsOf(15625, 0), TotalsOf(15625, 1), TotalsOf(MaxValidators, 0),
               TotalsOf(MaxValidators, 1), TotalsOf(proposers_per_epoch, 0)}

UnitConfigs ==
    {[Config_new EXCEPT !.probability_online = online,
                        !.probability_honest = honest,
                        !.exp_value_inclusion_prob = magic] :
        online \in {F32_0_5, F32_0_99, F32_1_0},
        honest \in {F32_0_5, F32_1_0},
        magic \in {get_exp_value_inclusion_prob_default, F32_1_0}}

ActivityCalls ==
    {[fn |-> "update_previous_epoch_activity", done |-> FALSE,
      self |-> ValidatorOf(MAX_EFFECTIVE_BALANCE, MAX_EFFECTIVE_BALANCE,
                           active, slashed, matched, matched, matched, proposer),
      config |-> [Config_new EXCEPT !.probability_online = online,
                                    !.probability_honest = honest],
      indices |-> at[1], index |-> at[2], draw1 |-> draw1, draw2 |-> draw2] :
        active \in BOOLEAN, slashed \in BOOLEAN, matched \in BOOLEAN, proposer \in BOOLEAN,
        online \in {F32_0_0, F32_0_5, F32_0_99, F32_1_0},
        honest \in {F32_0_0, F32_0_5, F32_1_0},
        at \in {<<<<>>, 0>>, <<TestProposerIndices, 8>>, <<TestProposerIndices, 19>>},
        draw1 \in Draws \cup {MaxDraw}, draw2 \in Draws \cup {MaxDraw}}

DeltasCalls ==
    {[fn |-> "get_attestation_deltas", done |-> FALSE,
      validator |-> ValidatorOf(effective_balance, effective_balance,
                                active, slashed, matched, matched, matched, proposer),
      config |-> config, totals |-> totals] :
        effective_balance \in {MAX_EFFECTIVE_BALANCE, N(<<31, 0, 0, 0>>)},
        active \in BOOLEAN, slashed \in BOOLEAN, matched \in BOOLEAN, proposer \in BOOLEAN,
        config \in UnitConfigs, totals \in UnitTotals}

HysteresisCalls ==
    {[fn |-> "update_effective_balance", done |-> FALSE,
      self |-> ValidatorOf(balance, effective_balance, TRUE, FALSE, FALSE, FALSE, FALSE, FALSE)] :
        balance \in HalfSteps,
        effective_balance \in {Zero, N(<<23, 0, 0, 0>>), N(<<24, 0, 0, 0>>),
                               N(<<24, 0, 0, 500>>), N(<<31, 0, 0, 0>>),
                               MAX_EFFECTIVE_BALANCE}}

BaseRewardCalls ==
    {[fn |-> "get_base_reward", done |-> FALSE,
      self |-> ValidatorOf(effective_balance, effective_balance,
                           TRUE, FALSE, FALSE, FALSE, FALSE, FALSE),
      sqrt_total_active_balance |-> root] :
        effective_balance \in {b \in HalfSteps : Le(b, MAX_EFFECTIVE_BALANCE)},
        root \in {One, <<8>>, N(<<178, 885>>), N(<<1, 27, 618>>), N(<<22, 360, 679>>)}}

ApplyDeltasCalls ==
    {[fn |-> "apply_deltas", done |-> FALSE,
      old_validator |-> ValidatorOf(balance, MAX_EFFECTIVE_BALANCE,
                                    flags[1], flags[2], flags[3], flags[4], flags[5], flags[6]),
      deltas |-> [head_ffg_reward |-> reward, head_ffg_penalty |-> penalty,
                  proposer_reward |-> proposer, attester_reward |-> attester]] :
        balance \in {Zero, FromInt(100), MAX_EFFECTIVE_BALANCE, Sub(U64Modulus, One)},
        flags \in [1..6 -> BOOLEAN],
        reward \in {Zero, N(<<68, 690>>)},
        penalty \in {Zero, N(<<68, 691>>)},
        proposer \in {Zero, N(<<2, 862>>)},
        attester \in {Zero, N(<<20, 35>>)}}

\* StateTotals::new is tried on up to MaxTotalsLen validators.
MaxTotalsLen == 4

\* get_dummy_validator of the tests of state.rs.
get_dummy_validator(balance, effective_balance, is_active, is_slashed) ==
    ValidatorOf(FromInt(balance), FromInt(effective_balance), is_active, is_slashed,
                FALSE, FALSE, FALSE, FALSE)

\* The four validators of tests::new_state_totals and an inactive slashed one.
DummyValidators ==
    {get_dummy_validator(100, 16, TRUE, TRUE),
     get_dummy_validator(200, 18, TRUE, FALSE),
     get_dummy_validator(300, 30, TRUE, FALSE),
     get_dummy_validator(400, 40, FALSE, FALSE),
     get_dummy_validator(50, 9, FALSE, TRUE)}

TotalsCalls ==
    {[fn |-> "StateTotals_new", done |-> FALSE, validators |-> vs] :
        vs \in {w \in UNION {[1..k -> DummyValidators] : k \in 0..MaxTotalsLen} :
                    \A i, j \in DOMAIN w : w[i] = w[j] => i = j}}

UnitInit ==
    /\ unit \in ActivityCalls \cup DeltasCalls \cup HysteresisCalls
                \cup BaseRewardCalls \cup ApplyDeltasCalls \cup TotalsCalls
    /\ state = [config |-> Config_new, validators |-> <<>>]
    /\ pc = "unit"
    /\ epoch_id = 0
    /\ output = <<>>
    /\ rng = 1
    /\ Locals

Call(out) ==
    /\ pc = "unit"
    /\ unit' = [fn |-> unit.fn, done |-> TRUE, in |-> unit, out |-> out]
    /\ UNCHANGED <<state, pc, epoch_id, pre_state_totals, proposer_indices,
                   validator_index, post_state_validators, epoch_report_row, output,
                   rng, validator, base_reward, deltas>>

CallActivity ==
    /\ unit.fn = "update_previous_epoch_activity"
    /\ ~unit.done
    /\ Call(update_previous_epoch_activity(unit.self, [config |-> unit.config],
                unit.indices, unit.index, unit.draw1, unit.draw2))

\* base_reward as process_epoch computes it before the call.
CallDeltas ==
    /\ unit.fn = "get_attestation_deltas"
    /\ ~unit.done
    /\ LET reward == get_base_reward(unit.validator, unit.totals.sqrt_active_balance)
       IN  Call([base_reward |-> reward,
                 deltas |-> get_attestation_deltas(unit.validator, reward,
                                [config |-> unit.config], unit.totals, Deltas_new)])

CallHysteresis ==
    /\ unit.fn = "update_effective_balance"
    /\ ~unit.done
    /\ Call(update_effective_balance(unit.self))

CallBaseReward ==
    /\ unit.fn = "get_base_reward"
    /\ ~unit.done
    /\ Call(get_base_reward(unit.self, unit.sqrt_total_active_balance))

\* A build with overflow checks panics where one without wraps.
CallApplyDeltas ==
    /\ unit.fn = "apply_deltas"
    /\ ~unit.done
    /\ \E panics \in (IF apply_deltas_overflows(unit.old_validator, unit.deltas)
                      THEN BOOLEAN ELSE {FALSE}) :
           Call([panicked |-> panics,
                 validator |-> apply_deltas(unit.old_validator, unit.deltas)])

CallTotals ==
    /\ unit.fn = "StateTotals_new"
    /\ ~unit.done
    /\ Call(StateTotals_new([config |-> Config_new, validators |-> unit.validators]))

UnitNext ==
    \/ CallActivity
    \/ CallDeltas
    \/ CallHysteresis
    \/ CallBaseReward
    \/ CallApplyDeltas
    \/ CallTotals

SpecUnit == UnitInit /\ [][UnitNext]_vars

----------------------------------------------------------------------------
(* Properties of the program *)

EligibleCount(st) ==
    Cardinality({i \in 1..Len(st.validators) :
                    st.validators[i].is_active /\ ~st.validators[i].is_slashed})

\* C1 (first half): whenever pick_epoch_proposers has returned, proposer_indices
\* holds exactly 32 pairwise distinct indices into the validator set, each of a
\* validator that is active and not slashed.
C1_Returned ==
    pc = "validators" =>
        /\ Len(proposer_indices) = 32
        /\ \A i, j \in 1..Len(proposer_indices) :
               i # j => proposer_indices[i] # proposer_indices[j]
        /\ \A i \in 1..Len(proposer_indices) :
               /\ proposer_indices[i] \in 0..(Len(state.validators) - 1)
               /\ state.validators[proposer_indices[i] + 1].is_active
               /\ ~state.validators[proposer_indices[i] + 1].is_slashed

\* C1 (second half): an index is pushed only when the candidate's
\* effective_balance * 255 >= random_byte * MAX_EFFECTIVE_BALANCE, the byte being the
\* draw that follows the candidate's.
C1_AcceptedByBias ==
    (pc = "pick" /\ proposer_indices' # proposer_indices) =>
        /\ Len(proposer_indices') = Len(proposer_indices) + 1
        /\ SubSeq(proposer_indices', 1, Len(proposer_indices)) = proposer_indices
        /\ LET chosen == proposer_indices'[Len(proposer_indices')]
               byte == NextRng(rng) % 255
           IN  ~Lt(MulSmall(state.validators[chosen + 1].effective_balance, 255),
                   MulSmall(N(<<32, 0, 0, 0>>), byte))

\* C1: pick_epoch_proposers returns 32 distinct indices of active, unslashed
\* validators, and accepts a candidate only under the effective-balance bias.
C1_PickEpochProposers == []C1_Returned /\ [][C1_AcceptedByBias]_vars

\* C1's case: the call has returned for a validator set with a slashed validator
\* and has chosen a validator whose effective balance is below the maximum.
C1_Witness ==
    /\ pc = "validators"
    /\ state.validators[1].is_slashed
    /\ \E i \in 1..Len(proposer_indices) :
           state.validators[proposer_indices[i] + 1].effective_balance = N(<<31, 0, 0, 0>>)

\* C2: proposer selection over fewer than 32 eligible (active and not slashed)
\* validators fails: the loop of pick_epoch_proposers is never entered.
C2_FailsWithoutEnoughEligible ==
    pc = "pick" => EligibleCount(state) >= 32

\* With fewer than 32 eligible validators the loop, once entered, never returns.
NoReturnWithoutEnoughEligible ==
    (pc = "pick" /\ EligibleCount(state) < 32) => Len(proposer_indices) < 32

IsZeroDeltas(d) ==
    /\ d.head_ffg_reward = Zero
    /\ d.head_ffg_penalty = Zero
    /\ d.proposer_reward = Zero
    /\ d.attester_reward = Zero

\* C3: a validator with is_active = false gets four zero deltas and keeps its
\* balance through the epoch transition, whatever its other fields.
C3_Deltas ==
    (pc = "validators" /\ validator_index > 0 /\ ~validator.is_active) =>
        /\ IsZeroDeltas(deltas)
        /\ post_state_validators[validator_index].balance =
               state.validators[validator_index].balance

C3_Transition ==
    (pc = "validators" /\ pc' = "main") =>
        /\ Len(state'.validators) = Len(state.validators)
        /\ \A i \in 1..Len(state.validators) :
               ~state.validators[i].is_active =>
                   state'.validators[i].balance = state.validators[i].balance

C3_InactiveUntouched == []C3_Deltas /\ [][C3_Transition]_vars

\* C3's case: an inactive (and slashed) validator with a non-zero base reward has
\* been processed.
C3_Witness ==
    /\ pc = "validators"
    /\ validator_index = 1
    /\ ~validator.is_active
    /\ validator.is_slashed
    /\ base_reward # Zero

OnGrid(v) ==
    /\ Le(v.effective_balance, N(<<32, 0, 0, 0>>))
    /\ Mod(v.effective_balance, N(<<1, 0, 0, 0>>)) = Zero

\* C7: in every state reached from the initial state by epoch transitions, every
\* validator has effective_balance <= MAX_EFFECTIVE_BALANCE and a multiple of
\* EFFECTIVE_BALANCE_INCREMENT.  (Each validator is looked at when it is made and
\* when the State it belongs to is installed.)
C7_EffectiveBalanceOnGrid ==
    /\ (pc = "validators" /\ validator_index > 0) =>
           OnGrid(post_state_validators[validator_index])
    /\ pc = "main" => \A i \in 1..Len(state.validators) : OnGrid(state.validators[i])

\* C7's case: an epoch has been run and has moved a validator's effective balance.
C7_Witness ==
    /\ pc = "main"
    /\ epoch_id = 2
    /\ \E i \in 1..Len(state.validators) :
           state.validators[i].effective_balance = N(<<31, 0, 0, 0>>)

----------------------------------------------------------------------------
(* Properties of single calls *)

Done(fn) == pc = "unit" /\ unit.fn = fn /\ unit.done

\* r = a div b, said with a multiplication: b * r <= a < b * (r + 1).
IsQuotient(r, a, b) == Le(Mul(b, r), a) /\ Lt(a, Mul(b, Add(r, One)))

SameFlags(a, b) ==
    /\ a.is_active = b.is_active
    /\ a.is_slashed = b.is_slashed
    /\ a.has_matched_source = b.has_matched_source
    /\ a.has_matched_target = b.has_matched_target
    /\ a.has_matched_head = b.has_matched_head
    /\ a.is_proposer = b.is_proposer

PenaltyOnly(d, reward) ==
    /\ d.head_ffg_penalty = Add(reward, Add(reward, reward))
    /\ d.head_ffg_reward = Zero
    /\ d.proposer_reward = Zero
    /\ d.attester_reward = Zero

C5_Case ==
    /\ Done("get_attestation_deltas")
    /\ unit.in.validator.is_active
    /\ unit.in.validator.has_matched_source
    /\ ~unit.in.validator.is_proposer
    /\ unit.in.config.probability_online = F32_1_0
    /\ unit.in.config.probability_honest = F32_1_0

\* C5 as stated: head_ffg_reward = 3 * base_reward * (matching_balance / 1000) /
\* (active_balance / 1000), head_ffg_penalty = 0 and proposer_reward = 0.
C5_Original ==
    C5_Case =>
        /\ IsQuotient(unit.out.deltas.head_ffg_reward,
                      Mul(MulSmall(unit.out.base_reward, 3),
                          Div(unit.in.totals.matching_balance, N(<<1, 0>>))),
                      Div(unit.in.totals.active_balance, N(<<1, 0>>)))
        /\ unit.out.deltas.head_ffg_penalty = Zero
        /\ unit.out.deltas.proposer_reward = Zero

\* C5 as amended: head_ffg_reward = 3 * base_reward * mb / tab with tab =
\* active_balance / 1000 and mb = (matching_balance as f32) as u64 / 1000, the
\* matching balance rounded to the 24 bits of an f32 before it is scaled; with no
\* validator slashed that is 3 * base_reward or one less; head_ffg_penalty = 0 and
\* proposer_reward = 0.
C5_MatchedSourceReward ==
    C5_Case =>
        /\ IsQuotient(unit.out.deltas.head_ffg_reward,
                      Mul(MulSmall(unit.out.base_reward, 3),
                          Div(FloorAsU64(AsF32(unit.in.totals.matching_balance)),
                              N(<<1, 0>>))),
                      Div(unit.in.totals.active_balance, N(<<1, 0>>)))
        /\ unit.in.totals.matching_balance = unit.in.totals.active_balance =>
               /\ Le(unit.out.deltas.head_ffg_reward, MulSmall(unit.out.base_reward, 3))
               /\ Le(MulSmall(unit.out.base_reward, 3),
                     Add(unit.out.deltas.head_ffg_reward, One))
        /\ unit.out.deltas.head_ffg_penalty = Zero
        /\ unit.out.deltas.proposer_reward = Zero

\* C5's case: the validator of tests::ffg_rewards_1 among the 15625 of State::new():
\* base reward 22897, reward 68690.
C5_Witness ==
    /\ C5_Case
    /\ unit.in.totals.active_validators = 15625
    /\ unit.in.totals.matching_balance = unit.in.totals.active_balance
    /\ unit.out.base_reward = N(<<22, 897>>)
    /\ unit.out.deltas.head_ffg_reward = N(<<68, 690>>)

HysteresisExample(balance, effective_balance, expected) ==
    (/\ unit.in.self.balance = balance
     /\ unit.in.self.effective_balance = effective_balance) =>
        unit.out.effective_balance = expected

\* C6: update_effective_balance: with H = EFFECTIVE_BALANCE_INCREMENT / 2, when
\* balance < effective_balance or effective_balance + 3H < balance, the effective
\* balance becomes the balance rounded down to a multiple of the increment and
\* capped at MAX_EFFECTIVE_BALANCE; otherwise it stays; the balance and the flags
\* never change.  With effective balance 24e9: 23.5e9 gives 23e9, 24.5e9, 25e9 and
\* 25.5e9 give 24e9, 25.500001e9 gives 25e9.
C6_Hysteresis ==
    Done("update_effective_balance") =>
        LET b == unit.in.self.balance
            e == unit.in.self.effective_balance
            new == unit.out.effective_balance
        IN  /\ unit.out.balance = b
            /\ SameFlags(unit.out, unit.in.self)
            /\ IF Lt(b, e) \/ Lt(Add(e, N(<<1, 500, 0, 0>>)), b)
               THEN /\ Le(new, N(<<32, 0, 0, 0>>))
                    /\ \E k \in 0..32 : new = MulSmall(N(<<1, 0, 0, 0>>), k)
                    /\ Le(new, b)
                    /\ new = N(<<32, 0, 0, 0>>) \/ Lt(b, Add(new, N(<<1, 0, 0, 0>>)))
               ELSE new = e
            /\ HysteresisExample(N(<<23, 500, 0, 0>>), N(<<24, 0, 0, 0>>), N(<<23, 0, 0, 0>>))
            /\ HysteresisExample(N(<<24, 500, 0, 0>>), N(<<24, 0, 0, 0>>), N(<<24, 0, 0, 0>>))
            /\ HysteresisExample(N(<<25, 0, 0, 0>>), N(<<24, 0, 0, 0>>), N(<<24, 0, 0, 0>>))
            /\ HysteresisExample(N(<<25, 500, 0, 0>>), N(<<24, 0, 0, 0>>), N(<<24, 0, 0, 0>>))
            /\ HysteresisExample(N(<<25, 500, 1, 0>>), N(<<24, 0, 0, 0>>), N(<<25, 0, 0, 0>>))

\* C6's case: balance 25.500001e9 over effective balance 24e9 has given 25e9.
C6_Witness ==
    /\ Done("update_effective_balance")
    /\ unit.in.self.balance = N(<<25, 500, 1, 0>>)
    /\ unit.in.self.effective_balance = N(<<24, 0, 0, 0>>)
    /\ unit.out.effective_balance = N(<<25, 0, 0, 0>>)

\* C8: update_previous_epoch_activity sets has_matched_source = not slashed and
\* probability_online > draw1 and probability_honest > draw2, has_matched_target
\* and has_matched_head to the same, is_proposer to the index being among the
\* proposer indices, and copies balance, effective_balance, is_active and
\* is_slashed; so a slashed validator never matches, a probability of 0.0 never
\* matches and an unslashed validator with both probabilities 1.0 always matches.
C8_Activity ==
    Done("update_previous_epoch_activity") =>
        LET in == unit.in
            out == unit.out
            matched == /\ ~in.self.is_slashed
                       /\ F32Gt(in.config.probability_online, in.draw1)
                       /\ F32Gt(in.config.probability_honest, in.draw2)
        IN  /\ out.has_matched_source = matched
            /\ out.has_matched_target = matched
            /\ out.has_matched_head = matched
            /\ out.is_proposer = (in.index \in {in.indices[i] : i \in 1..Len(in.indices)})
            /\ out.balance = in.self.balance
            /\ out.effective_balance = in.self.effective_balance
            /\ out.is_active = in.self.is_active
            /\ out.is_slashed = in.self.is_slashed
            /\ in.self.is_slashed => ~out.has_matched_source
            /\ (in.config.probability_online = F32_0_0
                    \/ in.config.probability_honest = F32_0_0) => ~out.has_matched_source
            /\ (/\ ~in.self.is_slashed
                /\ in.config.probability_online = F32_1_0
                /\ in.config.probability_honest = F32_1_0) => out.has_matched_source

\* C8's case: an unslashed validator with stale flags, both probabilities 1.0 and
\* the largest draw, at a proposer's index.
C8_Witness ==
    /\ Done("update_previous_epoch_activity")
    /\ ~unit.in.self.is_slashed
    /\ ~unit.in.self.has_matched_source
    /\ ~unit.in.self.is_proposer
    /\ unit.in.config.probability_online = F32_1_0
    /\ unit.in.config.probability_honest = F32_1_0
    /\ unit.in.draw1 = MaxDraw
    /\ unit.in.index = 8
    /\ unit.out.has_matched_source
    /\ unit.out.is_proposer

\* C9: get_base_reward is ((effective_balance * 64) div sqrt_active_balance) div 4,
\* that is the r with 4 * sqrt * r <= effective_balance * 64 < 4 * sqrt * (r + 1);
\* for 32_000_000_000 and 22_360_679 it is 22_897.
C9_BaseReward ==
    Done("get_base_reward") =>
        /\ IsQuotient(unit.out,
                      MulSmall(unit.in.self.effective_balance, 64),
                      MulSmall(unit.in.sqrt_total_active_balance, 4))
        /\ (/\ unit.in.self.effective_balance = N(<<32, 0, 0, 0>>)
            /\ unit.in.sqrt_total_active_balance = N(<<22, 360, 679>>)) =>
               unit.out = N(<<22, 897>>)

\* C9's case: the call of tests::get_base_reward.
C9_Witness ==
    /\ Done("get_base_reward")
    /\ unit.in.self.effective_balance = N(<<32, 0, 0, 0>>)
    /\ unit.in.sqrt_total_active_balance = N(<<22, 360, 679>>)
    /\ unit.out = N(<<22, 897>>)

----------------------------------------------------------------------------
(* Properties of the run *)

\* The run started from State::new() as it is, always online and honest.
AlwaysOnlineRun ==
    /\ state.config.probability_online = F32_1_0
    /\ state.config.probability_honest = F32_1_0
    /\ \A i \in 1..Len(state.validators) :
           state.validators[i].is_active /\ ~state.validators[i].is_slashed

C11_Step ==
    (pc = "validators" /\ validator_index > 0 /\ AlwaysOnlineRun) =>
        /\ deltas.head_ffg_penalty = Zero
        /\ Le(state.validators[validator_index].balance,
              post_state_validators[validator_index].balance)

C11_Transition ==
    (pc = "validators" /\ pc' = "main" /\ AlwaysOnlineRun) =>
        \A i \in 1..Len(state.validators) :
            Le(state.validators[i].balance, state'.validators[i].balance)

\* C11: from the initial state with probability_online = probability_honest =
\* 1.0, no validator is ever assigned a head_ffg_penalty and every validator's
\* balance after an epoch is at least its balance before it.
C11_NeverPenalised == []C11_Step /\ [][C11_Transition]_vars

\* C11's case: two epochs of such a run are over and every balance has grown.
C11_Witness ==
    /\ pc = "main"
    /\ epoch_id = 2
    /\ AlwaysOnlineRun
    /\ \A i \in 1..Len(state.validators) :
           Lt(MAX_EFFECTIVE_BALANCE, state.validators[i].balance)

C12_Rows ==
    pc # "unit" =>
        /\ Len(output) = epoch_id
        /\ \A k \in 1..Len(output) : output[k].epoch_id = k - 1
        /\ pc = "done" => Len(output) = state.config.epochs
        /\ state.config.epochs = 0 => output = <<>>

C12_Steps ==
    /\ \/ output' = output
       \/ /\ Len(output') = Len(output) + 1
          /\ SubSeq(output', 1, Len(output)) = output
          /\ pc = "validators" /\ pc' = "main"
    /\ state.config.epochs = 0 => state' = state
    /\ state'.config = state.config
    /\ Len(state'.validators) = Len(state.validators)
    /\ \A i \in 1..Len(state.validators) :
           /\ state'.validators[i].is_active = state.validators[i].is_active
           /\ state'.validators[i].is_slashed = state.validators[i].is_slashed

\* C12: a run with Config.epochs = N that ends has appended exactly N report
\* rows, one at the end of each process_epoch, row k carrying epoch index k; rows
\* once appended are never changed or removed; zero epochs leave the state as it
\* was and the report empty; the number of validators and every validator's
\* is_active and is_slashed never change.
C12_ReportRows == []C12_Rows /\ [][C12_Steps]_vars

\* C12's case: a run of two epochs over a state whose first validator is slashed
\* and inactive has ended.
C12_Witness ==
    /\ pc = "done"
    /\ state.config.epochs = 2
    /\ Len(output) = 2
    /\ output[2].epoch_id = 1
    /\ state.validators[1].is_slashed
    /\ ~state.validators[1].is_active

----------------------------------------------------------------------------
(* Properties of StateTotals::new and of the proposer reward *)

RECURSIVE SumOfInts(_)
SumOfInts(ints) == IF ints = <<>> THEN 0 ELSE Head(ints) + SumOfInts(Tail(ints))

\* C13: StateTotals::new gives staked_balance = the sum of all balances,
\* active_balance = the sum of the effective balances of the active validators,
\* sqrt_active_balance = its floor square root, matching_balance = the sum of the
\* effective balances of the active unslashed validators, active_validators = the
\* number of active validators, max_balance and min_balance = the largest and the
\* smallest balance of all validators; so matching_balance <= active_balance.
C13_StateTotals ==
    Done("StateTotals_new") =>
        LET vs == unit.in.validators
            t == unit.out
            balances == [i \in 1..Len(vs) |-> ToInt(vs[i].balance)]
            active == [i \in 1..Len(vs) |->
                          IF vs[i].is_active THEN ToInt(vs[i].effective_balance) ELSE 0]
            matching == [i \in 1..Len(vs) |->
                            IF vs[i].is_active /\ ~vs[i].is_slashed
                            THEN ToInt(vs[i].effective_balance) ELSE 0]
            root == ToInt(t.sqrt_active_balance)
        IN  /\ t.staked_balance = FromInt(SumOfInts(balances))
            /\ t.active_balance = FromInt(SumOfInts(active))
            /\ root * root <= SumOfInts(active)
            /\ SumOfInts(active) < (root + 1) * (root + 1)
            /\ t.matching_balance = FromInt(SumOfInts(matching))
            /\ t.active_validators = Cardinality({i \in 1..Len(vs) : vs[i].is_active})
            /\ vs # <<>> =>
                   /\ \E i \in 1..Len(vs) : t.max_balance = vs[i].balance
                   /\ \A i \in 1..Len(vs) : Le(vs[i].balance, t.max_balance)
                   /\ \E i \in 1..Len(vs) : t.min_balance = vs[i].balance
                   /\ \A i \in 1..Len(vs) : Le(t.min_balance, vs[i].balance)
            /\ Le(t.matching_balance, t.active_balance)

\* C13's case: the validators and the totals of tests::new_state_totals.
C13_Witness ==
    /\ Done("StateTotals_new")
    /\ unit.in.validators = <<get_dummy_validator(100, 16, TRUE, TRUE),
                               get_dummy_validator(200, 18, TRUE, FALSE),
                               get_dummy_validator(300, 30, TRUE, FALSE),
                               get_dummy_validator(400, 40, FALSE, FALSE)>>
    /\ unit.out.staked_balance = FromInt(1000)
    /\ unit.out.active_balance = FromInt(64)
    /\ unit.out.sqrt_active_balance = FromInt(8)
    /\ unit.out.active_validators = 3
    /\ unit.out.matching_balance = FromInt(48)
    /\ unit.out.max_balance = FromInt(400)
    /\ unit.out.min_balance = FromInt(100)

\* C14: an active validator that matched source gets, when it is a proposer,
\* proposer_reward = (base_reward div 8) * floor((active_validators div 32) *
\* probability_online * probability_honest), the products being those of f32,
\* and 0 when it is no proposer; an inactive validator and one that did not match
\* source get proposer_reward = 0 even as proposers.  With 15625 validators, a
\* base reward of 22897 and both probabilities 1.0 that is 1_396_656.
C14_ProposerReward ==
    Done("get_attestation_deltas") =>
        LET v == unit.in.validator
            attestations ==
                FloorAsU64(F32Mul(F32Mul(AsF32(FromInt(unit.in.totals.active_validators \div 32)),
                                         unit.in.config.probability_online),
                                  unit.in.config.probability_honest))
        IN  /\ (v.is_active /\ v.has_matched_source /\ v.is_proposer) =>
                   \E q \in {Div(unit.out.deltas.proposer_reward, Max(attestations, One))} :
                       /\ unit.out.deltas.proposer_reward = Mul(q, attestations)
                       /\ attestations # Zero => IsQuotient(q, unit.out.base_reward, <<8>>)
            /\ ~(v.is_active /\ v.has_matched_source /\ v.is_proposer) =>
                   unit.out.deltas.proposer_reward = Zero
            /\ (/\ v.is_active /\ v.has_matched_source /\ v.is_proposer
                /\ unit.in.totals.active_validators = 15625
                /\ unit.out.base_reward = N(<<22, 897>>)
                /\ unit.in.config.probability_online = F32_1_0
                /\ unit.in.config.probability_honest = F32_1_0) =>
                   unit.out.deltas.proposer_reward = N(<<1, 396, 656>>)

\* C14's case: the proposer of tests::proposer_reward_validator_is_proposer.
C14_Witness ==
    /\ Done("get_attestation_deltas")
    /\ unit.in.validator.is_active
    /\ unit.in.validator.has_matched_source
    /\ unit.in.validator.is_proposer
    /\ unit.in.totals.active_validators = 15625
    /\ unit.in.config.probability_online = F32_1_0
    /\ unit.in.config.probability_honest = F32_1_0
    /\ unit.out.deltas.proposer_reward = N(<<1, 396, 656>>)

----------------------------------------------------------------------------
(* The validator loop of process_epoch, its iterations taken from either end *)

\* The two values of rng.gen() that validator index gets, whenever it is processed.
DrawOf(index) == <<gen_f32(rng + index), gen_f32(rng + 2 * index + 1)>>

\* A list pick_epoch_proposers can return: the first 32 eligible indices.
FirstEligible(st) ==
    LET Eligible(i) == st.validators[i + 1].is_active /\ ~st.validators[i + 1].is_slashed
    IN  SubSeq(SelectSeq([i \in 1..Len(st.validators) |-> i - 1], Eligible),
               1, proposers_per_epoch)

\* One iteration of the loop (mod.rs 27-45): the new validator and its deltas.
process_validator(st, state_totals, indices, index) ==
    LET v == update_previous_epoch_activity(st.validators[index + 1], st, indices, index,
                                            DrawOf(index)[1], DrawOf(index)[2])
        reward == get_base_reward(v, state_totals.sqrt_active_balance)
        d == get_attestation_deltas(v, reward, st, state_totals, Deltas_new)
    IN  [validator |-> v,
         base_reward |-> reward,
         deltas |-> d,
         new_validator |-> update_effective_balance(apply_deltas(v, d))]

OrderInit ==
    /\ \E pattern \in {p \in FlagPatterns : p.slashed # {} /\ p.inactive = {}},
          probability \in {<<F32_0_99, F32_1_0>>, <<F32_0_5, F32_0_5>>} :
            state = WithFlags(
                        State_new([Config_new EXCEPT
                            !.epochs = 1,
                            !.total_at_stake_initial =
                                MulSmall(MAX_EFFECTIVE_BALANCE, MaxValidators),
                            !.probability_online = probability[1],
                            !.probability_honest = probability[2]]),
                        pattern)
    /\ EligibleCount(state) >= proposers_per_epoch
    /\ rng \in 1..MaxSeed
    /\ pc = "loop"
    /\ epoch_id = 0
    /\ output = <<>>
    /\ unit = NoUnit
    /\ pre_state_totals = StateTotals_new(state)
    /\ proposer_indices = FirstEligible(state)
    /\ validator_index = 0
    /\ post_state_validators = <<>>
    /\ epoch_report_row = EpochReportRow_new
    /\ validator = NewValidator
    /\ base_reward = Zero
    /\ deltas = Deltas_new

\* The positions (from 1) of the validators not processed yet.
Unprocessed == (1..Len(state.validators)) \ DOMAIN post_state_validators

\* The iteration with the totals computed again from the validators as they
\* are by now, the processed ones updated.
ProcessAt_ReadsUpdated(index) ==
    /\ pc = "loop"
    /\ \E updated \in {[state EXCEPT !.validators =
                              [j \in 1..Len(state.validators) |->
                                  IF j \in DOMAIN post_state_validators
                                  THEN post_state_validators[j]
                                  ELSE state.validators[j]]]} :
       \E totals \in {StateTotals_new(updated)} :
       \E v \in {update_previous_epoch_activity(state.validators[index + 1], state,
                      proposer_indices, index, DrawOf(index)[1], DrawOf(index)[2])} :
       \E reward \in {get_base_reward(v, totals.sqrt_active_balance)} :
       \E d \in {get_attestation_deltas(v, reward, state, totals, Deltas_new)} :
           /\ validator' = v
           /\ base_reward' = reward
           /\ deltas' = d
           /\ post_state_validators' =
                  [j \in DOMAIN post_state_validators \cup {index + 1} |->
                      IF j = index + 1 THEN update_effective_balance(apply_deltas(v, d))
                      ELSE post_state_validators[j]]
           /\ epoch_report_row' = aggregate(epoch_report_row, d)
           /\ pre_state_totals' = totals
    /\ validator_index' = index
    /\ UNCHANGED <<state, pc, epoch_id, proposer_indices, output, rng, unit>>

\* The iteration for validator index (mod.rs 27-48), reading the pre-state and
\* writing its slot of the post state.
ProcessAt(index) ==
    /\ pc = "loop"
    /\ \E v \in {update_previous_epoch_activity(state.validators[index + 1], state,
                      proposer_indices, index, DrawOf(index)[1], DrawOf(index)[2])} :
       \E reward \in {get_base_reward(v, pre_state_totals.sqrt_active_balance)} :
       \E d \in {get_attestation_deltas(v, reward, state, pre_state_totals, Deltas_new)} :
           /\ validator' = v
           /\ base_reward' = reward
           /\ deltas' = d
           /\ post_state_validators' =
                  [j \in DOMAIN post_state_validators \cup {index + 1} |->
                      IF j = index + 1 THEN update_effective_balance(apply_deltas(v, d))
                      ELSE post_state_validators[j]]
           /\ epoch_report_row' = aggregate(epoch_report_row, d)
    /\ validator_index' = index
    /\ UNCHANGED <<state, pc, epoch_id, pre_state_totals, proposer_indices, output, rng,
                   unit>>

ProcessFront ==
    /\ Unprocessed # {}
    /\ ProcessAt((CHOOSE j \in Unprocessed : \A k \in Unprocessed : j <= k) - 1)

ProcessBack ==
    /\ Unprocessed # {}
    /\ ProcessAt((CHOOSE j \in Unprocessed : \A k \in Unprocessed : j >= k) - 1)

OrderNext ==
    \/ ProcessFront
    \/ ProcessBack

SpecOrder == OrderInit /\ [][OrderNext]_vars

----------------------------------------------------------------------------
(* Properties of the validator loop taken in any order *)

\* The report row after the first k validators, aggregated in index order.
RECURSIVE InOrderRow(_, _)
InOrderRow(results, k) ==
    IF k = 0 THEN EpochReportRow_new
    ELSE aggregate(InOrderRow(results, k - 1), results[k].deltas)

\* Nothing the loop reads is written by the loop.
C15_ReadsKept ==
    /\ state' = state
    /\ pre_state_totals' = pre_state_totals
    /\ proposer_indices' = proposer_indices

\* Once every validator is processed, the post state and the report row are
\* those of the loop run in index order over the pre-state.
C15_SameAsInOrder ==
    Unprocessed = {} =>
        /\ pre_state_totals = StateTotals_new(state)
        /\ LET results == [i \in 1..Len(state.validators) |->
                              process_validator(state, pre_state_totals, proposer_indices,
                                                i - 1)]
           IN  /\ post_state_validators =
                      [i \in 1..Len(state.validators) |-> results[i].new_validator]
               /\ epoch_report_row = InOrderRow(results, Len(state.validators))

----------------------------------------------------------------------------
(* The program run with every validator offline *)

\* config.epochs of the run.
OfflineEpochs == 36400

\* State::new for 32 validators, the probabilities those of Config::new.
OfflineInit ==
    /\ state = State_new([Config_new EXCEPT
                    !.epochs = OfflineEpochs,
                    !.total_at_stake_initial =
                        MulSmall(MAX_EFFECTIVE_BALANCE, proposers_per_epoch)])
    /\ rng = 1
    /\ pc = "main"
    /\ epoch_id = 0
    /\ output = <<>>
    /\ unit = NoUnit
    /\ Locals

\* One call of process_epoch (mod.rs 16-66) in which every rng.gen() returns
\* the largest f32 below 1, so that no validator has been online, on
\* validators that are all equal.  pick_epoch_proposers returns 32 distinct
\* indices, here all of them; the loop body is the same computation for every
\* validator, so it is evaluated for the first and its result written to every
\* slot.
OfflineEpoch ==
    /\ pc = "main"
    /\ epoch_id < state.config.epochs
    /\ Len(state.validators) = proposers_per_epoch
    /\ \A i \in DOMAIN state.validators : state.validators[i] = state.validators[1]
    /\ \E totals \in {StateTotals_new(state)} :
       \E indices \in {[i \in 1..Len(state.validators) |-> i - 1]} :
       \E v \in {update_previous_epoch_activity(state.validators[1], state, indices, 0,
                      MaxDraw, MaxDraw)} :
           /\ pre_state_totals' = totals
           /\ proposer_indices' = indices
           /\ IF \/ totals.sqrt_active_balance = Zero
                 \/ get_attestation_deltas_panics(v, totals)
              THEN \* a division by zero
                   /\ pc' = "panicked"
                   /\ UNCHANGED <<state, epoch_id, validator, base_reward, deltas>>
              ELSE \E reward \in {get_base_reward(v, totals.sqrt_active_balance)} :
                   \E d \in {get_attestation_deltas(v, reward, state, totals, Deltas_new)} :
                   \E panics \in (IF apply_deltas_overflows(v, d) THEN BOOLEAN ELSE {FALSE}) :
                   \E new_validator \in {update_effective_balance(apply_deltas(v, d))} :
                       /\ validator' = v
                       /\ base_reward' = reward
                       /\ deltas' = d
                       /\ IF panics
                          THEN pc' = "panicked" /\ UNCHANGED <<state, epoch_id>>
                          ELSE /\ state' = [state EXCEPT !.validators =
                                               [i \in DOMAIN @ |-> new_validator]]
                               /\ epoch_id' = epoch_id + 1
                               /\ pc' = pc
    /\ UNCHANGED <<validator_index, post_state_validators, epoch_report_row, output, rng,
                   unit>>

OfflineNext == OfflineEpoch

SpecOffline == OfflineInit /\ [][OfflineNext]_vars

\* Every validator's effective balance is at most its balance.
EffectiveWithinBalance ==
    \A i \in DOMAIN state.validators :
        Le(state.validators[i].effective_balance, state.validators[i].balance)

\* The penalty of the latest iteration is at most the balance plus the reward.
PenaltyWithinBalance ==
    Le(deltas.head_ffg_penalty, Add(validator.balance, deltas.head_ffg_reward))

\* process_epoch has not taken its totals with sqrt_active_balance = 0: every
\* call of it goes on to get_base_reward with them.
SqrtNeverZero ==
    pre_state_totals # StateTotals_none => pre_state_totals.sqrt_active_balance # Zero

\* C16: after every epoch transition, whatever the probabilities and the
\* draws, every validator has effective_balance <= balance, the penalty of a
\* transition is at most the validator's balance plus its reward
\* (head_ffg_penalty <= balance + head_ffg_reward), so the subtraction of
\* apply_deltas never underflows, and get_base_reward is never called with
\* sqrt_active_balance = 0.
C16_NeverDividesByZero ==
    /\ EffectiveWithinBalance
    /\ PenaltyWithinBalance
    /\ SqrtNeverZero
    /\ pc # "panicked"

====
